---- MODULE Spec2Model ----
(***************************************************************************)
(* Shape-level model of src/model.py: the U-Net family (UNet, DUNet,       *)
(* CAUNet, CADUNet, CAMUNet, CAMDUNet), UNetVgg16, DCAN, the shared blocks  *)
(* they are built from, count_parameters and build_model.                  *)
(*                                                                         *)
(* A tensor is abstracted to its shape (n, c, h, w), the range its         *)
(* elements can take ("real", "nonneg", "unit" = [0,1]) and the operation  *)
(* that produced it.  An exception raised by a tensor operation is the     *)
(* tensor value Err(msg); an operation given it passes it on unchanged.    *)
(*                                                                         *)
(* A class is modelled by what its __init__ registers (a table of modules, *)
(* in registration order) and by the statements of its forward (a          *)
(* sequence, run in order by Exec until one raises).                       *)
(***************************************************************************)
EXTENDS Integers, Sequences, FiniteSets, TLC

VARIABLES model_name, model, x, y, count, blk

vars == <<model_name, model, x, y, count, blk>>

\* Largest height and width of an input tensor, and largest batch size.
MaxDim == 34
MaxN == 2
\* Largest height and width handed to a single block outside a network, and
\* largest channel count, kernel size and dilation of such a block.
MaxBlkDim == 7
MaxBlkCh == 2
MaxKernel == 5
MaxDilation == 3
\* Largest height and width of the tensor a DeConvBlk upsamples.
MaxUpDim == 3

----------------------------------------------------------------------------
\* Tensors and the tensor-library operations the source calls.

T(n, c, h, w, rng, op) ==
    [ok |-> TRUE, n |-> n, c |-> c, h |-> h, w |-> w, rng |-> rng, op |-> op, err |-> ""]

Err(msg) ==
    [ok |-> FALSE, n |-> 0, c |-> 0, h |-> 0, w |-> 0, rng |-> "none", op |-> "raise", err |-> msg]

NoTensor == Err("no tensor")

\* Least range containing both ranges.
JoinRng(a, b) ==
    IF a = b THEN a
    ELSE IF a \in {"nonneg", "unit"} /\ b \in {"nonneg", "unit"} THEN "nonneg"
    ELSE "real"

\* Output size of a stride-1 convolution along one dimension.
ConvOut(size, kernel_size, padding, dilation) ==
    size + 2 * padding - dilation * (kernel_size - 1)

\* nn.Conv2d(in_ch, out_ch, kernel_size, padding, dilation), stride 1.
Conv2d(t, in_ch, out_ch, kernel_size, padding, dilation) ==
    IF ~t.ok THEN t
    ELSE IF t.c # in_ch THEN Err("conv2d: input channels")
    ELSE IF ConvOut(t.h, kernel_size, padding, dilation) < 1
            \/ ConvOut(t.w, kernel_size, padding, dilation) < 1
         THEN Err("conv2d: kernel larger than padded input")
    ELSE T(t.n, out_ch, ConvOut(t.h, kernel_size, padding, dilation),
           ConvOut(t.w, kernel_size, padding, dilation), "real", "conv")

\* nn.BatchNorm2d(num_features).
BatchNorm2d(t, num_features) ==
    IF ~t.ok THEN t
    ELSE IF t.c # num_features THEN Err("batchnorm2d: channels")
    ELSE T(t.n, t.c, t.h, t.w, "real", "norm")

\* F.relu / nn.ReLU.
relu(t) ==
    IF ~t.ok THEN t ELSE T(t.n, t.c, t.h, t.w, "nonneg", "relu")

\* nn.Dropout2d(p): zeroes channels and rescales the rest by 1/(1-p).
Dropout2d(t) ==
    IF ~t.ok THEN t
    ELSE T(t.n, t.c, t.h, t.w, IF t.rng = "unit" THEN "nonneg" ELSE t.rng, "dropout")

\* Output size of nn.MaxPool2d(2) (stride 2, floor mode) along one dimension.
PoolOut(size) == (size - 2) \div 2 + 1

\* nn.MaxPool2d(kernel_size=2); an empty output raises.
MaxPool2d(t) ==
    IF ~t.ok THEN t
    ELSE IF PoolOut(t.h) < 1 \/ PoolOut(t.w) < 1 THEN Err("maxpool2d: output size is too small")
    ELSE T(t.n, t.c, PoolOut(t.h), PoolOut(t.w), t.rng, "maxpool")

\* nn.ConvTranspose2d(in_ch, out_ch, kernel_size, stride), no padding.
ConvTranspose2d(t, in_ch, out_ch, kernel_size, stride) ==
    IF ~t.ok THEN t
    ELSE IF t.c # in_ch THEN Err("convtranspose2d: input channels")
    ELSE T(t.n, out_ch, (t.h - 1) * stride + kernel_size,
           (t.w - 1) * stride + kernel_size, "real", "convtranspose")

\* torch.cat([a, b], 1): every dimension but the channels must agree.
cat(a, b) ==
    IF ~a.ok THEN a
    ELSE IF ~b.ok THEN b
    ELSE IF a.n # b.n \/ a.h # b.h \/ a.w # b.w THEN Err("cat: sizes of tensors must match")
    ELSE T(a.n, a.c + b.c, a.h, a.w, JoinRng(a.rng, b.rng), "cat")

\* A faulty F.sigmoid: a rectifier in its place, which is not bounded above.
sigmoid_as_relu(t) ==
    IF ~t.ok THEN t ELSE T(t.n, t.c, t.h, t.w, "nonneg", "relu")

\* F.sigmoid.
sigmoid(t) ==
    IF ~t.ok THEN t ELSE T(t.n, t.c, t.h, t.w, "unit", "sigmoid")

\* F.pad(t, (left, right, top, bottom)): the first pair pads the last
\* dimension (width), the second pair the one before it (height); a negative
\* amount crops.
pad(t, left, right, top, bottom) ==
    IF ~t.ok THEN t
    ELSE IF t.h + top + bottom < 0 \/ t.w + left + right < 0 THEN Err("pad: negative output size")
    ELSE T(t.n, t.c, t.h + top + bottom, t.w + left + right, t.rng, "pad")

\* One dimension of a broadcast elementwise operation; 0 when the sizes
\* cannot be broadcast together.
Broadcast(a, b) == IF a = b THEN a ELSE IF a = 1 THEN b ELSE IF b = 1 THEN a ELSE 0

\* a + b on tensors, with broadcasting.
add(a, b) ==
    IF ~a.ok THEN a
    ELSE IF ~b.ok THEN b
    ELSE IF Broadcast(a.n, b.n) = 0 \/ Broadcast(a.c, b.c) = 0
            \/ Broadcast(a.h, b.h) = 0 \/ Broadcast(a.w, b.w) = 0
         THEN Err("add: sizes of tensors must match")
    ELSE T(Broadcast(a.n, b.n), Broadcast(a.c, b.c), Broadcast(a.h, b.h), Broadcast(a.w, b.w),
           IF a.rng = "real" \/ b.rng = "real" THEN "real" ELSE "nonneg", "add")

----------------------------------------------------------------------------
\* The blocks' forward methods.

\* self.drop of a DilatedConvBlock: nn.Dropout2d when dropout_rate > 0, else
\* the identity.  dropout_rate is in percent.
Drop(t, dropout_rate) == IF dropout_rate > 0 THEN Dropout2d(t) ELSE t

\* DilatedConvBlock(in_size, out_size, kernel_size, dropout_rate, dilation).forward:
\* the convolution has padding = dilation, whatever the kernel size.
DilatedConvBlock(t, in_size, out_size, kernel_size, dropout_rate, dilation) ==
    Drop(BatchNorm2d(relu(Conv2d(t, in_size, out_size, kernel_size, dilation, dilation)),
                     out_size),
         dropout_rate)

\* return self.pool(x), x: the pool is computed before the pair is built, so
\* when it raises the caller gets neither element.
PoolPair(t) == <<MaxPool2d(t), IF MaxPool2d(t).ok THEN t ELSE MaxPool2d(t)>>

\* ConvBlock(in_size, out_size, dilation).forward: <<pooled, pre-pool>>.
ConvBlock(t, in_size, out_size, dilation) ==
    PoolPair(DilatedConvBlock(DilatedConvBlock(t, in_size, out_size, 3, 0, 1),
                              out_size, out_size, 3, 20, dilation))

\* A faulty self.up: the transposed convolution with stride 1.
ConvUp_stride1(t, in_size, out_size) == ConvTranspose2d(t, in_size, out_size, 2, 1)

\* A faulty self.up: the transposed convolution keeps in_size channels.
ConvUp_keep(t, in_size, out_size) == ConvTranspose2d(t, in_size, in_size, 2, 2)

\* The result of self.up inside ConvUpBlock.forward.
ConvUp(t, in_size, out_size) == ConvTranspose2d(t, in_size, out_size, 2, 2)

\* ConvUpBlock(in_size, out_size, dilation).forward(x, bridge).
ConvUpBlock(t, bridge, in_size, out_size, dilation) ==
    DilatedConvBlock(DilatedConvBlock(cat(ConvUp(t, in_size, out_size), bridge),
                                      in_size, out_size, 3, 0, 1),
                     out_size, out_size, 3, 20, dilation)

\* Python's int(d / 2): true division, then truncation toward zero.
IntHalf(d) == IF d >= 0 THEN d \div 2 ELSE -((-d) \div 2)

\* The padded skip tensor inside DeConvBlk.forward: diffX is the height
\* difference (size()[2]), diffY the width difference (size()[3]); `//` is
\* floor division.  diffX pads the width and diffY the height.
DeConvPad(x1, x2) ==
    IF ~x1.ok THEN x1
    ELSE IF ~x2.ok THEN x2
    ELSE pad(x2, (x1.h - x2.h) \div 2, IntHalf(x1.h - x2.h),
                 (x1.w - x2.w) \div 2, IntHalf(x1.w - x2.w))

\* self.upscaling inside DeConvBlk.forward.
DeConvUp(x1, in_ch) == ConvTranspose2d(x1, in_ch, in_ch \div 2, 2, 2)

\* One convolution, ReLU, batch norm and dropout of an nn.Sequential (the
\* convs of DeConvBlk, the conv of dcanConv): a 3x3 convolution, padding 1.
ConvReluNormDrop(t, in_ch, out_ch) ==
    Dropout2d(BatchNorm2d(relu(Conv2d(t, in_ch, out_ch, 3, 1, 1)), out_ch))

\* DeConvBlk(in_ch, out_ch).forward(x1, x2).
DeConvBlk(x1, x2, in_ch, out_ch) ==
    ConvReluNormDrop(
        ConvReluNormDrop(cat(DeConvUp(x1, in_ch), DeConvPad(DeConvUp(x1, in_ch), x2)),
                         in_ch \div 2 + out_ch, out_ch),
        out_ch, out_ch)

\* outConv(in_ch, out_ch).forward.
outConv(t, in_ch, out_ch) == Conv2d(t, in_ch, out_ch, 1, 0, 1)

\* dcanConv(in_ch, out_ch).forward.
dcanConv(t, in_ch, out_ch) == ConvReluNormDrop(t, in_ch, out_ch)

\* dcanDeConv(in_ch, out_ch, upscale_factor).forward.
dcanDeConv(t, in_ch, out_ch, upscale_factor) ==
    dcanConv(ConvTranspose2d(t, in_ch, out_ch, upscale_factor, upscale_factor), out_ch, out_ch)

----------------------------------------------------------------------------
\* Modules: what a constructor registers under an attribute.  id names the
\* parameters the module owns; an attribute bound to a layer of another
\* module carries that layer's id.

Mod(attr, kind, in_ch, out_ch, k, padding, dilation, dropout_rate, id) ==
    [attr |-> attr, kind |-> kind, in_ch |-> in_ch, out_ch |-> out_ch, k |-> k,
     padding |-> padding, dilation |-> dilation, dropout_rate |-> dropout_rate, id |-> id]

\* self.<attr> = ConvBlock(in_size, out_size, dilation=dilation).
mConvBlock(attr, in_size, out_size, dilation) ==
    Mod(attr, "ConvBlock", in_size, out_size, 3, dilation, dilation, 20, attr)

\* self.<attr> = ConvUpBlock(in_size, out_size).
mConvUpBlock(attr, in_size, out_size) ==
    Mod(attr, "ConvUpBlock", in_size, out_size, 3, 1, 1, 20, attr)

\* self.<attr> = DilatedConvBlock(in_size, out_size, dilation=dilation).
mDilatedConvBlock(attr, in_size, out_size, dilation) ==
    Mod(attr, "DilatedConvBlock", in_size, out_size, 3, dilation, dilation, 10, attr)

\* nn.Conv2d(in_ch, out_ch, k, padding=padding).
mConv2d(attr, in_ch, out_ch, k, padding) ==
    Mod(attr, "Conv2d", in_ch, out_ch, k, padding, 1, 0, attr)

\* nn.BatchNorm2d(c).
mBatchNorm2d(attr, c) == Mod(attr, "BatchNorm2d", c, c, 0, 0, 1, 0, attr)

\* nn.Linear(in_f, out_f).
mLinear(attr, in_f, out_f) == Mod(attr, "Linear", in_f, out_f, 0, 0, 1, 0, attr)

\* nn.MaxPool2d(2, 2) and nn.ReLU(inplace=True): no parameters.
mMaxPool2d(attr) == Mod(attr, "MaxPool2d", 0, 0, 2, 0, 1, 0, attr)

mReLU(attr) == Mod(attr, "ReLU", 0, 0, 0, 0, 1, 0, attr)

\* self.<attr> = DeConvBlk(in_ch, out_ch).
mDeConvBlk(attr, in_ch, out_ch) == Mod(attr, "DeConvBlk", in_ch, out_ch, 3, 1, 1, 20, attr)

\* self.<attr> = outConv(in_ch, out_ch).
moutConv(attr, in_ch, out_ch) == Mod(attr, "outConv", in_ch, out_ch, 1, 0, 1, 0, attr)

\* self.<attr> = dcanConv(in_ch, out_ch).
mdcanConv(attr, in_ch, out_ch) == Mod(attr, "dcanConv", in_ch, out_ch, 3, 1, 1, 20, attr)

\* self.<attr> = dcanDeConv(in_ch, out_ch, upscale_factor).
mdcanDeConv(attr, in_ch, out_ch, upscale_factor) ==
    Mod(attr, "dcanDeConv", in_ch, out_ch, upscale_factor, 0, 1, 20, attr)

\* Number of scalar parameters of the layers.
\* nn.Conv2d(in_ch, out_ch, k): weight out_ch x in_ch x k x k, and a bias.
Conv2dNumel(in_ch, out_ch, k) == in_ch * out_ch * k * k + out_ch

\* nn.ConvTranspose2d(in_ch, out_ch, k): weight in_ch x out_ch x k x k, and a bias.
ConvTranspose2dNumel(in_ch, out_ch, k) == in_ch * out_ch * k * k + out_ch

\* nn.BatchNorm2d(c): weight and bias (the running statistics are buffers).
BatchNorm2dNumel(c) == 2 * c

\* nn.Linear(in_f, out_f).
LinearNumel(in_f, out_f) == in_f * out_f + out_f

DilatedConvBlockNumel(in_size, out_size, kernel_size) ==
    Conv2dNumel(in_size, out_size, kernel_size) + BatchNorm2dNumel(out_size)

ConvBlockNumel(in_size, out_size) ==
    DilatedConvBlockNumel(in_size, out_size, 3) + DilatedConvBlockNumel(out_size, out_size, 3)

ConvUpBlockNumel(in_size, out_size) ==
    ConvTranspose2dNumel(in_size, out_size, 2)
    + DilatedConvBlockNumel(in_size, out_size, 3) + DilatedConvBlockNumel(out_size, out_size, 3)

DeConvBlkNumel(in_ch, out_ch) ==
    ConvTranspose2dNumel(in_ch, in_ch \div 2, 2)
    + Conv2dNumel(in_ch \div 2 + out_ch, out_ch, 3) + BatchNorm2dNumel(out_ch)
    + Conv2dNumel(out_ch, out_ch, 3) + BatchNorm2dNumel(out_ch)

dcanConvNumel(in_ch, out_ch) == Conv2dNumel(in_ch, out_ch, 3) + BatchNorm2dNumel(out_ch)

dcanDeConvNumel(in_ch, out_ch, upscale_factor) ==
    ConvTranspose2dNumel(in_ch, out_ch, upscale_factor) + dcanConvNumel(out_ch, out_ch)

\* Number of scalar parameters a registered module owns.
Numel(mod) ==
    CASE mod.kind = "ConvBlock" -> ConvBlockNumel(mod.in_ch, mod.out_ch)
      [] mod.kind = "ConvUpBlock" -> ConvUpBlockNumel(mod.in_ch, mod.out_ch)
      [] mod.kind = "DilatedConvBlock" -> DilatedConvBlockNumel(mod.in_ch, mod.out_ch, mod.k)
      [] mod.kind = "Conv2d" -> Conv2dNumel(mod.in_ch, mod.out_ch, mod.k)
      [] mod.kind = "BatchNorm2d" -> BatchNorm2dNumel(mod.out_ch)
      [] mod.kind = "Linear" -> LinearNumel(mod.in_ch, mod.out_ch)
      [] mod.kind = "DeConvBlk" -> DeConvBlkNumel(mod.in_ch, mod.out_ch)
      [] mod.kind = "outConv" -> Conv2dNumel(mod.in_ch, mod.out_ch, 1)
      [] mod.kind = "dcanConv" -> dcanConvNumel(mod.in_ch, mod.out_ch)
      [] mod.kind = "dcanDeConv" -> dcanDeConvNumel(mod.in_ch, mod.out_ch, mod.k)
      [] OTHER -> 0

----------------------------------------------------------------------------
\* The constructors: the modules each __init__ registers, in order.

UNet_init ==
    <<mConvBlock("c1", 3, 16, 1), mConvBlock("c2", 16, 32, 1), mConvBlock("c3", 32, 64, 1),
      mConvBlock("c4", 64, 128, 1), mConvBlock("cu", 128, 256, 1),
      mConvUpBlock("u5", 256, 128), mConvUpBlock("u6", 128, 64), mConvUpBlock("u7", 64, 32),
      mConvUpBlock("u8", 32, 16), mConv2d("ce", 16, 1, 1, 0)>>

DUNet_init ==
    <<mConvBlock("c1", 3, 16, 2), mConvBlock("c2", 16, 32, 2), mConvBlock("c3", 32, 64, 2),
      mConvBlock("c4", 64, 128, 2), mDilatedConvBlock("d1", 128, 256, 1),
      mDilatedConvBlock("d2", 256, 256, 2), mDilatedConvBlock("d3", 256, 256, 4),
      mDilatedConvBlock("d4", 256, 256, 8), mConvUpBlock("u5", 256, 128),
      mConvUpBlock("u6", 128, 64), mConvUpBlock("u7", 64, 32), mConvUpBlock("u8", 32, 16),
      mConv2d("ce", 16, 1, 1, 0)>>

CAUNet_init ==
    <<mConvBlock("c1", 3, 16, 1), mConvBlock("c2", 16, 32, 1), mConvBlock("c3", 32, 64, 1),
      mConvBlock("c4", 64, 128, 1), mConvBlock("cu", 128, 256, 1),
      mConvUpBlock("u5s", 256, 128), mConvUpBlock("u6s", 128, 64), mConvUpBlock("u7s", 64, 32),
      mConvUpBlock("u8s", 32, 16), mConv2d("ces", 16, 1, 1, 0), mConvUpBlock("u5c", 256, 128),
      mConvUpBlock("u6c", 128, 64), mConvUpBlock("u7c", 64, 32), mConvUpBlock("u8c", 32, 16),
      mConv2d("cec", 16, 1, 1, 0)>>

CADUNet_init ==
    <<mConvBlock("c1", 3, 16, 2), mConvBlock("c2", 16, 32, 2), mConvBlock("c3", 32, 64, 2),
      mConvBlock("c4", 64, 128, 2), mDilatedConvBlock("d1", 128, 256, 1),
      mDilatedConvBlock("d2", 256, 256, 2), mDilatedConvBlock("d3", 256, 256, 4),
      mDilatedConvBlock("d4", 256, 256, 8), mConvUpBlock("u5s", 256, 128),
      mConvUpBlock("u6s", 128, 64), mConvUpBlock("u7s", 64, 32), mConvUpBlock("u8s", 32, 16),
      mConv2d("ces", 16, 1, 1, 0), mConvUpBlock("u5c", 256, 128), mConvUpBlock("u6c", 128, 64),
      mConvUpBlock("u7c", 64, 32), mConvUpBlock("u8c", 32, 16), mConv2d("cec", 16, 1, 1, 0)>>

CAMUNet_init ==
    <<mConvBlock("c1", 3, 16, 1), mConvBlock("c2", 16, 32, 1), mConvBlock("c3", 32, 64, 1),
      mConvBlock("c4", 64, 128, 1), mConvBlock("cu", 128, 256, 1),
      mConvUpBlock("u5s", 256, 128), mConvUpBlock("u6s", 128, 64), mConvUpBlock("u7s", 64, 32),
      mConvUpBlock("u8s", 32, 16), mConv2d("ces", 16, 1, 1, 0), mConvUpBlock("u5c", 256, 128),
      mConvUpBlock("u6c", 128, 64), mConvUpBlock("u7c", 64, 32), mConvUpBlock("u8c", 32, 16),
      mConv2d("cec", 16, 1, 1, 0), mConvUpBlock("u5m", 256, 128), mConvUpBlock("u6m", 128, 64),
      mConvUpBlock("u7m", 64, 32), mConvUpBlock("u8m", 32, 16), mConv2d("cem", 16, 1, 1, 0)>>

CAMDUNet_init ==
    <<mConvBlock("c1", 3, 16, 2), mConvBlock("c2", 16, 32, 2), mConvBlock("c3", 32, 64, 2),
      mConvBlock("c4", 64, 128, 2), mDilatedConvBlock("d1", 128, 256, 1),
      mDilatedConvBlock("d2", 256, 256, 2), mDilatedConvBlock("d3", 256, 256, 4),
      mDilatedConvBlock("d4", 256, 256, 8), mConvUpBlock("u5s", 256, 128),
      mConvUpBlock("u6s", 128, 64), mConvUpBlock("u7s", 64, 32), mConvUpBlock("u8s", 32, 16),
      mConv2d("ces", 16, 1, 1, 0), mConvUpBlock("u5c", 256, 128), mConvUpBlock("u6c", 128, 64),
      mConvUpBlock("u7c", 64, 32), mConvUpBlock("u8c", 32, 16), mConv2d("cec", 16, 1, 1, 0),
      mConvUpBlock("u5m", 256, 128), mConvUpBlock("u6m", 128, 64), mConvUpBlock("u7m", 64, 32),
      mConvUpBlock("u8m", 32, 16), mConv2d("cem", 16, 1, 1, 0)>>

\* models.vgg16_bn(pretrained=True).features: its convolutions (3x3,
\* padding 1) and batch norms, under their indices.
vgg16_features ==
    <<mConv2d("vgg16.features.0", 3, 64, 3, 1), mBatchNorm2d("vgg16.features.1", 64),
      mConv2d("vgg16.features.3", 64, 64, 3, 1), mBatchNorm2d("vgg16.features.4", 64),
      mConv2d("vgg16.features.7", 64, 128, 3, 1), mBatchNorm2d("vgg16.features.8", 128),
      mConv2d("vgg16.features.10", 128, 128, 3, 1), mBatchNorm2d("vgg16.features.11", 128),
      mConv2d("vgg16.features.14", 128, 256, 3, 1), mBatchNorm2d("vgg16.features.15", 256),
      mConv2d("vgg16.features.17", 256, 256, 3, 1), mBatchNorm2d("vgg16.features.18", 256),
      mConv2d("vgg16.features.20", 256, 256, 3, 1), mBatchNorm2d("vgg16.features.21", 256),
      mConv2d("vgg16.features.24", 256, 512, 3, 1), mBatchNorm2d("vgg16.features.25", 512),
      mConv2d("vgg16.features.27", 512, 512, 3, 1), mBatchNorm2d("vgg16.features.28", 512),
      mConv2d("vgg16.features.30", 512, 512, 3, 1), mBatchNorm2d("vgg16.features.31", 512),
      mConv2d("vgg16.features.34", 512, 512, 3, 1), mBatchNorm2d("vgg16.features.35", 512),
      mConv2d("vgg16.features.37", 512, 512, 3, 1), mBatchNorm2d("vgg16.features.38", 512),
      mConv2d("vgg16.features.40", 512, 512, 3, 1), mBatchNorm2d("vgg16.features.41", 512)>>

\* models.vgg16_bn(pretrained=True).classifier: its three linear layers.
vgg16_classifier ==
    <<mLinear("vgg16.classifier.0", 25088, 4096), mLinear("vgg16.classifier.3", 4096, 4096),
      mLinear("vgg16.classifier.6", 4096, 1000)>>

\* self.vgg16 = models.vgg16_bn(pretrained=True): what the attribute vgg16 holds.
vgg16 == vgg16_features \o vgg16_classifier

\* self.vgg16.features[i].
Feature(i) ==
    vgg16_features[CHOOSE k \in DOMAIN vgg16_features :
                      vgg16_features[k].attr = "vgg16.features." \o ToString(i)]

\* self.<attr> = self.vgg16.features[i]: the attribute is the backbone's own
\* layer, parameters included, not a copy.
Alias(attr, i) == [Feature(i) EXCEPT !.attr = attr]

UNetVgg16_init(n_channels, n_classes) ==
    <<mMaxPool2d("maxpool"), mReLU("relu")>> \o vgg16 \o
    <<Alias("conv1a", 0), Alias("bn1a", 1), Alias("conv1b", 3), Alias("bn1b", 4),
      Alias("conv2a", 7), Alias("bn2a", 8), Alias("conv2b", 10), Alias("bn2b", 11),
      Alias("conv3a", 14), Alias("bn3a", 15), Alias("conv3b", 17), Alias("bn3b", 18),
      Alias("conv3c", 20), Alias("bn3c", 21), Alias("conv4a", 24), Alias("bn4a", 25),
      Alias("conv4b", 27), Alias("bn4b", 28), Alias("conv4c", 30), Alias("bn4c", 31),
      Alias("conv5a", 34), Alias("bn5a", 35), Alias("conv5b", 37), Alias("bn5b", 38),
      Alias("conv5c", 40), Alias("bn5c", 41)>> \o
    <<mDeConvBlk("deconv1", 512, 512), mDeConvBlk("deconv2", 512, 256),
      mDeConvBlk("deconv3", 256, 128), mDeConvBlk("deconv4", 128, 64),
      moutConv("outc", 64, n_classes)>>

\* A faulty freeze: for param in self.vgg16.features.parameters().
frozen_features_only(fixed_vgg) ==
    IF fixed_vgg THEN {vgg16_features[k].id : k \in DOMAIN vgg16_features} ELSE {}

\* The ids of the parameters UNetVgg16.__init__ sets requires_grad = False
\* on: for param in self.vgg16.parameters(), when fixed_vgg.
UNetVgg16_frozen(fixed_vgg) ==
    IF fixed_vgg THEN {vgg16[k].id : k \in DOMAIN vgg16} ELSE {}

DCAN_init(n_channels, n_classes) ==
    <<mMaxPool2d("maxpool"),
      mdcanConv("conv1", n_channels, 64), mdcanConv("conv2", 64, 128),
      mdcanConv("conv3", 128, 256), mdcanConv("conv4", 256, 512),
      mdcanConv("conv5", 512, 512), mdcanConv("conv6", 512, 1024),
      mdcanDeConv("deconv3s", 512, n_classes, 8), mdcanDeConv("deconv3c", 512, n_classes, 8),
      mdcanDeConv("deconv2s", 512, n_classes, 16), mdcanDeConv("deconv2c", 512, n_classes, 16),
      mdcanDeConv("deconv1s", 1024, n_classes, 32), mdcanDeConv("deconv1c", 1024, n_classes, 32)>>

----------------------------------------------------------------------------
\* The forward methods: their statements in order, and what they return.
\* S(dst, call, args) is  dst = call(args) : call is an attribute of self, or
\* F.sigmoid, or + ; "_" discards a result.  A nested call is written as
\* the statements it runs, innermost first, through the temporary "t".

S(dst, call, args) == [dst |-> dst, call |-> call, args |-> args]

\* UNet.forward.
UNet_forward ==
    [body |->
       <<S(<<"x", "c1">>, "c1", <<"x">>), S(<<"x", "c2">>, "c2", <<"x">>),
         S(<<"x", "c3">>, "c3", <<"x">>), S(<<"x", "c4">>, "c4", <<"x">>),
         S(<<"_", "x">>, "cu", <<"x">>), S(<<"x">>, "u5", <<"x", "c4">>),
         S(<<"x">>, "u6", <<"x", "c3">>), S(<<"x">>, "u7", <<"x", "c2">>),
         S(<<"x">>, "u8", <<"x", "c1">>), S(<<"x">>, "ce", <<"x">>),
         S(<<"x">>, "F.sigmoid", <<"x">>)>>,
     ret |-> <<"x">>]

\* DUNet.forward.
DUNet_forward ==
    [body |->
       <<S(<<"x", "c1">>, "c1", <<"x">>), S(<<"x", "c2">>, "c2", <<"x">>),
         S(<<"x", "c3">>, "c3", <<"x">>), S(<<"x", "c4">>, "c4", <<"x">>),
         S(<<"x">>, "d1", <<"x">>), S(<<"x">>, "d2", <<"x">>), S(<<"x">>, "d3", <<"x">>),
         S(<<"x">>, "d4", <<"x">>), S(<<"x">>, "u5", <<"x", "c4">>),
         S(<<"x">>, "u6", <<"x", "c3">>), S(<<"x">>, "u7", <<"x", "c2">>),
         S(<<"x">>, "u8", <<"x", "c1">>), S(<<"x">>, "ce", <<"x">>),
         S(<<"x">>, "F.sigmoid", <<"x">>)>>,
     ret |-> <<"x">>]

\* CAUNet.forward: segmentation branch, then contour branch.
CAUNet_forward ==
    [body |->
       <<S(<<"x", "c1">>, "c1", <<"x">>), S(<<"x", "c2">>, "c2", <<"x">>),
         S(<<"x", "c3">>, "c3", <<"x">>), S(<<"x", "c4">>, "c4", <<"x">>),
         S(<<"_", "x">>, "cu", <<"x">>), S(<<"xs">>, "u5s", <<"x", "c4">>),
         S(<<"xs">>, "u6s", <<"xs", "c3">>), S(<<"xs">>, "u7s", <<"xs", "c2">>),
         S(<<"xs">>, "u8s", <<"xs", "c1">>), S(<<"xs">>, "ces", <<"xs">>),
         S(<<"xs">>, "F.sigmoid", <<"xs">>), S(<<"xc">>, "u5c", <<"x", "c4">>),
         S(<<"xc">>, "u6c", <<"xc", "c3">>), S(<<"xc">>, "u7c", <<"xc", "c2">>),
         S(<<"xc">>, "u8c", <<"xc", "c1">>), S(<<"xc">>, "cec", <<"xc">>),
         S(<<"xc">>, "F.sigmoid", <<"xc">>)>>,
     ret |-> <<"xs", "xc">>]

\* CADUNet.forward: segmentation branch, then contour branch.
CADUNet_forward ==
    [body |->
       <<S(<<"x", "c1">>, "c1", <<"x">>), S(<<"x", "c2">>, "c2", <<"x">>),
         S(<<"x", "c3">>, "c3", <<"x">>), S(<<"x", "c4">>, "c4", <<"x">>),
         S(<<"x">>, "d1", <<"x">>), S(<<"x">>, "d2", <<"x">>), S(<<"x">>, "d3", <<"x">>),
         S(<<"x">>, "d4", <<"x">>), S(<<"xs">>, "u5s", <<"x", "c4">>),
         S(<<"xs">>, "u6s", <<"xs", "c3">>), S(<<"xs">>, "u7s", <<"xs", "c2">>),
         S(<<"xs">>, "u8s", <<"xs", "c1">>), S(<<"xs">>, "ces", <<"xs">>),
         S(<<"xs">>, "F.sigmoid", <<"xs">>), S(<<"xc">>, "u5c", <<"x", "c4">>),
         S(<<"xc">>, "u6c", <<"xc", "c3">>), S(<<"xc">>, "u7c", <<"xc", "c2">>),
         S(<<"xc">>, "u8c", <<"xc", "c1">>), S(<<"xc">>, "cec", <<"xc">>),
         S(<<"xc">>, "F.sigmoid", <<"xc">>)>>,
     ret |-> <<"xs", "xc">>]

\* CAMUNet.forward: segmentation, contour, then marker branch.
CAMUNet_forward ==
    [body |->
       <<S(<<"x", "c1">>, "c1", <<"x">>), S(<<"x", "c2">>, "c2", <<"x">>),
         S(<<"x", "c3">>, "c3", <<"x">>), S(<<"x", "c4">>, "c4", <<"x">>),
         S(<<"_", "x">>, "cu", <<"x">>), S(<<"xs">>, "u5s", <<"x", "c4">>),
         S(<<"xs">>, "u6s", <<"xs", "c3">>), S(<<"xs">>, "u7s", <<"xs", "c2">>),
         S(<<"xs">>, "u8s", <<"xs", "c1">>), S(<<"xs">>, "ces", <<"xs">>),
         S(<<"xs">>, "F.sigmoid", <<"xs">>), S(<<"xc">>, "u5c", <<"x", "c4">>),
         S(<<"xc">>, "u6c", <<"xc", "c3">>), S(<<"xc">>, "u7c", <<"xc", "c2">>),
         S(<<"xc">>, "u8c", <<"xc", "c1">>), S(<<"xc">>, "cec", <<"xc">>),
         S(<<"xc">>, "F.sigmoid", <<"xc">>), S(<<"xm">>, "u5m", <<"x", "c4">>),
         S(<<"xm">>, "u6m", <<"xm", "c3">>), S(<<"xm">>, "u7m", <<"xm", "c2">>),
         S(<<"xm">>, "u8m", <<"xm", "c1">>), S(<<"xm">>, "cem", <<"xm">>),
         S(<<"xm">>, "F.sigmoid", <<"xm">>)>>,
     ret |-> <<"xs", "xc", "xm">>]

\* CAMDUNet.forward: segmentation, contour, then marker branch.
CAMDUNet_forward ==
    [body |->
       <<S(<<"x", "c1">>, "c1", <<"x">>), S(<<"x", "c2">>, "c2", <<"x">>),
         S(<<"x", "c3">>, "c3", <<"x">>), S(<<"x", "c4">>, "c4", <<"x">>),
         S(<<"x">>, "d1", <<"x">>), S(<<"x">>, "d2", <<"x">>), S(<<"x">>, "d3", <<"x">>),
         S(<<"x">>, "d4", <<"x">>), S(<<"xs">>, "u5s", <<"x", "c4">>),
         S(<<"xs">>, "u6s", <<"xs", "c3">>), S(<<"xs">>, "u7s", <<"xs", "c2">>),
         S(<<"xs">>, "u8s", <<"xs", "c1">>), S(<<"xs">>, "ces", <<"xs">>),
         S(<<"xs">>, "F.sigmoid", <<"xs">>), S(<<"xc">>, "u5c", <<"x", "c4">>),
         S(<<"xc">>, "u6c", <<"xc", "c3">>), S(<<"xc">>, "u7c", <<"xc", "c2">>),
         S(<<"xc">>, "u8c", <<"xc", "c1">>), S(<<"xc">>, "cec", <<"xc">>),
         S(<<"xc">>, "F.sigmoid", <<"xc">>), S(<<"xm">>, "u5m", <<"x", "c4">>),
         S(<<"xm">>, "u6m", <<"xm", "c3">>), S(<<"xm">>, "u7m", <<"xm", "c2">>),
         S(<<"xm">>, "u8m", <<"xm", "c1">>), S(<<"xm">>, "cem", <<"xm">>),
         S(<<"xm">>, "F.sigmoid", <<"xm">>)>>,
     ret |-> <<"xs", "xc", "xm">>]

\* UNetVgg16.forward.
UNetVgg16_forward ==
    [body |->
       <<S(<<"t">>, "conv1a", <<"x">>), S(<<"t">>, "bn1a", <<"t">>),
         S(<<"t">>, "relu", <<"t">>), S(<<"t">>, "conv1b", <<"t">>),
         S(<<"t">>, "bn1b", <<"t">>), S(<<"x1">>, "relu", <<"t">>),
         S(<<"t">>, "maxpool", <<"x1">>), S(<<"t">>, "conv2a", <<"t">>),
         S(<<"t">>, "bn2a", <<"t">>), S(<<"t">>, "relu", <<"t">>),
         S(<<"t">>, "conv2b", <<"t">>), S(<<"t">>, "bn2b", <<"t">>),
         S(<<"x2">>, "relu", <<"t">>), S(<<"t">>, "maxpool", <<"x2">>),
         S(<<"t">>, "conv3a", <<"t">>), S(<<"t">>, "bn3a", <<"t">>),
         S(<<"t">>, "relu", <<"t">>), S(<<"t">>, "conv3b", <<"t">>),
         S(<<"t">>, "bn3b", <<"t">>), S(<<"t">>, "relu", <<"t">>),
         S(<<"t">>, "conv3c", <<"t">>), S(<<"t">>, "bn3c", <<"t">>),
         S(<<"x3">>, "relu", <<"t">>), S(<<"t">>, "maxpool", <<"x3">>),
         S(<<"t">>, "conv4a", <<"t">>), S(<<"t">>, "bn4a", <<"t">>),
         S(<<"t">>, "relu", <<"t">>), S(<<"t">>, "conv4b", <<"t">>),
         S(<<"t">>, "bn4b", <<"t">>), S(<<"t">>, "relu", <<"t">>),
         S(<<"t">>, "conv4c", <<"t">>), S(<<"t">>, "bn4c", <<"t">>),
         S(<<"x4">>, "relu", <<"t">>), S(<<"t">>, "maxpool", <<"x4">>),
         S(<<"t">>, "conv5a", <<"t">>), S(<<"t">>, "bn5a", <<"t">>),
         S(<<"t">>, "relu", <<"t">>), S(<<"t">>, "conv5b", <<"t">>),
         S(<<"t">>, "bn5b", <<"t">>), S(<<"t">>, "relu", <<"t">>),
         S(<<"t">>, "conv5c", <<"t">>), S(<<"t">>, "bn5c", <<"t">>),
         S(<<"x5">>, "relu", <<"t">>), S(<<"t">>, "deconv1", <<"x5", "x4">>),
         S(<<"t">>, "deconv2", <<"t", "x3">>), S(<<"t">>, "deconv3", <<"t", "x2">>),
         S(<<"t">>, "deconv4", <<"t", "x1">>), S(<<"t">>, "outc", <<"t">>),
         S(<<"t">>, "F.sigmoid", <<"t">>)>>,
     ret |-> <<"t">>]

\* DCAN.forward.
DCAN_forward ==
    [body |->
       <<S(<<"c1">>, "conv1", <<"x">>), S(<<"t">>, "maxpool", <<"c1">>),
         S(<<"c2">>, "conv2", <<"t">>), S(<<"t">>, "maxpool", <<"c2">>),
         S(<<"c3">>, "conv3", <<"t">>), S(<<"t">>, "maxpool", <<"c3">>),
         S(<<"c4">>, "conv4", <<"t">>), S(<<"u3s">>, "deconv3s", <<"c4">>),
         S(<<"u3c">>, "deconv3c", <<"c4">>), S(<<"t">>, "maxpool", <<"c4">>),
         S(<<"c5">>, "conv5", <<"t">>), S(<<"u2s">>, "deconv2s", <<"c5">>),
         S(<<"u2c">>, "deconv2c", <<"c5">>), S(<<"t">>, "maxpool", <<"c5">>),
         S(<<"c6">>, "conv6", <<"t">>), S(<<"u1s">>, "deconv1s", <<"c6">>),
         S(<<"u1c">>, "deconv1c", <<"c6">>), S(<<"t">>, "+", <<"u1s", "u2s">>),
         S(<<"t">>, "+", <<"t", "u3s">>), S(<<"outs">>, "F.sigmoid", <<"t">>),
         S(<<"t">>, "+", <<"u1c", "u2c">>), S(<<"t">>, "+", <<"t", "u3c">>),
         S(<<"outc">>, "F.sigmoid", <<"t">>)>>,
     ret |-> <<"outs", "outc">>]

----------------------------------------------------------------------------
\* Running a forward.

\* The local variables of the forward methods.
VarNames ==
    {"_", "x", "t", "c1", "c2", "c3", "c4", "c5", "c6", "xs", "xc", "xm",
     "x1", "x2", "x3", "x4", "x5", "u3s", "u3c", "u2s", "u2c", "u1s", "u1c", "outs", "outc"}

\* What self.<call> is: the module registered under that attribute.  F.sigmoid
\* and + are no attributes: they name themselves.
Module(init, call) ==
    IF \E k \in DOMAIN init : init[k].attr = call
    THEN init[CHOOSE k \in DOMAIN init : init[k].attr = call]
    ELSE Mod(call, call, 0, 0, 0, 0, 1, 0, call)

\* The results of calling a module (or F.sigmoid, or +) on the tensors a.
Apply(mod, a) ==
    CASE mod.kind = "ConvBlock" -> ConvBlock(a[1], mod.in_ch, mod.out_ch, mod.dilation)
      [] mod.kind = "ConvUpBlock" ->
            <<ConvUpBlock(a[1], a[2], mod.in_ch, mod.out_ch, mod.dilation)>>
      [] mod.kind = "DilatedConvBlock" ->
            <<DilatedConvBlock(a[1], mod.in_ch, mod.out_ch, mod.k, mod.dropout_rate, mod.dilation)>>
      [] mod.kind = "Conv2d" ->
            <<Conv2d(a[1], mod.in_ch, mod.out_ch, mod.k, mod.padding, mod.dilation)>>
      [] mod.kind = "BatchNorm2d" -> <<BatchNorm2d(a[1], mod.out_ch)>>
      [] mod.kind = "ReLU" -> <<relu(a[1])>>
      [] mod.kind = "MaxPool2d" -> <<MaxPool2d(a[1])>>
      [] mod.kind = "DeConvBlk" -> <<DeConvBlk(a[1], a[2], mod.in_ch, mod.out_ch)>>
      [] mod.kind = "outConv" -> <<outConv(a[1], mod.in_ch, mod.out_ch)>>
      [] mod.kind = "dcanConv" -> <<dcanConv(a[1], mod.in_ch, mod.out_ch)>>
      [] mod.kind = "dcanDeConv" -> <<dcanDeConv(a[1], mod.in_ch, mod.out_ch, mod.k)>>
      [] mod.kind = "F.sigmoid" -> <<sigmoid(a[1])>>
      [] mod.kind = "+" -> <<add(a[1], a[2])>>

\* The decoder stages reached so far, with this call added when it is one:
\* the stage, the name of the skip tensor it is given, the in_size of its
\* first convolution, the upsampled tensor and the skip tensor.
Logged(ups, stmt, mod, a) ==
    IF mod.kind = "ConvUpBlock"
    THEN Append(ups, [stage |-> mod.attr, bridge |-> stmt.args[2], in_size |-> mod.in_ch,
                      up |-> ConvUp(a[1], mod.in_ch, mod.out_ch), skip |-> a[2]])
    ELSE ups

\* The state of a forward after a statement whose call gave res: the
\* exception if it raised, else the results bound to the names of dst.
Store(stmt, mod, a, res, st) ==
    IF \E i \in DOMAIN res : ~res[i].ok
    THEN [env |-> st.env, ok |-> FALSE,
          err |-> res[CHOOSE i \in DOMAIN res : ~res[i].ok].err,
          ups |-> Logged(st.ups, stmt, mod, a)]
    ELSE [env |-> [v \in VarNames |->
                      IF \E i \in DOMAIN res : stmt.dst[i] = v
                      THEN res[CHOOSE i \in DOMAIN res : stmt.dst[i] = v]
                      ELSE st.env[v]],
          ok |-> TRUE, err |-> "",
          ups |-> Logged(st.ups, stmt, mod, a)]

\* One statement of a forward.
Step(init, stmt, st) ==
    Store(stmt, Module(init, stmt.call),
          [i \in DOMAIN stmt.args |-> st.env[stmt.args[i]]],
          Apply(Module(init, stmt.call), [i \in DOMAIN stmt.args |-> st.env[stmt.args[i]]]),
          st)

\* The statements body[k..] run from state st; nothing runs after an exception.
RECURSIVE Exec(_, _, _, _)
Exec(init, body, k, st) ==
    IF ~st.ok \/ k > Len(body) THEN st
    ELSE Exec(init, body, k + 1, Step(init, body[k], st))

\* What forward hands back: the tuple of returned tensors, or the exception
\* raised; ups lists the decoder stages it reached, in call order.
Returned(ret, st) ==
    IF st.ok
    THEN [ok |-> TRUE, outs |-> [i \in DOMAIN ret |-> st.env[ret[i]]], err |-> "", ups |-> st.ups]
    ELSE [ok |-> FALSE, outs |-> <<>>, err |-> st.err, ups |-> st.ups]

\* A forward (its statements and return) of a model with the modules init, on t.
Run(init, fwd, t) ==
    Returned(fwd.ret,
             Exec(init, fwd.body, 1,
                  [env |-> [v \in VarNames |-> IF v = "x" THEN t ELSE NoTensor],
                   ok |-> TRUE, err |-> "", ups |-> <<>>]))

----------------------------------------------------------------------------
\* Models, count_parameters and build_model.

Family == {"UNet", "DUNet", "CAUNet", "CADUNet", "CAMUNet", "CAMDUNet"}

Classes == Family \cup {"UNetVgg16", "DCAN"}

\* A constructed model: its class, its constructor arguments, the ids of the
\* parameters whose requires_grad is False, and who constructed it
\* (fixed_vgg is an argument of UNetVgg16 alone).
New(cls, n_channels, n_classes, fixed_vgg, by) ==
    [cls |-> cls, n_channels |-> n_channels, n_classes |-> n_classes,
     fixed_vgg |-> cls = "UNetVgg16" /\ fixed_vgg,
     frozen |-> IF cls = "UNetVgg16" THEN UNetVgg16_frozen(fixed_vgg) ELSE {},
     by |-> by]

NoModel ==
    [cls |-> "None", n_channels |-> 0, n_classes |-> 0, fixed_vgg |-> FALSE, frozen |-> {},
     by |-> "nobody"]

\* The modules registered on a model, in registration order.
Registered(m) ==
    CASE m.cls = "UNet" -> UNet_init
      [] m.cls = "DUNet" -> DUNet_init
      [] m.cls = "CAUNet" -> CAUNet_init
      [] m.cls = "CADUNet" -> CADUNet_init
      [] m.cls = "CAMUNet" -> CAMUNet_init
      [] m.cls = "CAMDUNet" -> CAMDUNet_init
      [] m.cls = "UNetVgg16" -> UNetVgg16_init(m.n_channels, m.n_classes)
      [] m.cls = "DCAN" -> DCAN_init(m.n_channels, m.n_classes)

\* The forward of a class.
Forwards(cls) ==
    CASE cls = "UNet" -> UNet_forward
      [] cls = "DUNet" -> DUNet_forward
      [] cls = "CAUNet" -> CAUNet_forward
      [] cls = "CADUNet" -> CADUNet_forward
      [] cls = "CAMUNet" -> CAMUNet_forward
      [] cls = "CAMDUNet" -> CAMDUNet_forward
      [] cls = "UNetVgg16" -> UNetVgg16_forward
      [] cls = "DCAN" -> DCAN_forward

\* model(t).
forward(m, t) == Run(Registered(m), Forwards(m.cls), t)

\* The registered modules that own parameters, each with the position it is
\* registered at.
Owners(r) ==
    SelectSeq([k \in DOMAIN r |-> [at |-> k, mod |-> r[k]]], LAMBDA e : Numel(e.mod) > 0)

\* The owners registered for the first time: a module reached again under
\* another attribute gives its parameters only once.
Uniq(r) ==
    SelectSeq(Owners(r), LAMBDA e : \A j \in 1..(e.at - 1) : r[j].id # e.mod.id)

Param(e, frozen) ==
    [id |-> e.mod.id, numel |-> Numel(e.mod), requires_grad |-> e.mod.id \notin frozen]

Tagged(u, frozen) == [k \in DOMAIN u |-> Param(u[k], frozen)]

\* model.parameters(): the parameters in registration order, each one once,
\* with their number of elements and requires_grad.
parameters(m) == Tagged(Uniq(Registered(m)), m.frozen)

\* Sum of numel over s[lo..hi].
RECURSIVE SumNumel(_, _, _)
SumNumel(s, lo, hi) ==
    IF lo > hi THEN 0
    ELSE IF lo = hi THEN s[lo].numel
    ELSE SumNumel(s, lo, (lo + hi) \div 2) + SumNumel(s, (lo + hi) \div 2 + 1, hi)

Total(g) == SumNumel(g, 1, Len(g))

\* sum(p.numel() for p in model.parameters() if p.requires_grad)
count_parameters(m) == Total(SelectSeq(parameters(m), LAMBDA p : p.requires_grad))

\* A faulty build_model: the final else constructs DUNet.
build_model_else_dunet(name) ==
    IF name = "unet_vgg16" THEN New("UNetVgg16", 3, 1, TRUE, "build_model")
    ELSE IF name = "dcan" THEN New("DCAN", 3, 1, FALSE, "build_model")
    ELSE IF name = "caunet" THEN New("CAUNet", 3, 1, FALSE, "build_model")
    ELSE IF name = "camunet" THEN New("CAMUNet", 3, 1, FALSE, "build_model")
    ELSE IF name = "dunet" THEN New("DUNet", 3, 1, FALSE, "build_model")
    ELSE IF name = "cadunet" THEN New("CAMDUNet", 3, 1, FALSE, "build_model")
    ELSE IF name = "camdunet" THEN New("CAMDUNet", 3, 1, FALSE, "build_model")
    ELSE New("DUNet", 3, 1, FALSE, "build_model")

build_model(name) ==
    IF name = "unet_vgg16" THEN New("UNetVgg16", 3, 1, TRUE, "build_model")
    ELSE IF name = "dcan" THEN New("DCAN", 3, 1, FALSE, "build_model")
    ELSE IF name = "caunet" THEN New("CAUNet", 3, 1, FALSE, "build_model")
    ELSE IF name = "camunet" THEN New("CAMUNet", 3, 1, FALSE, "build_model")
    ELSE IF name = "dunet" THEN New("DUNet", 3, 1, FALSE, "build_model")
    ELSE IF name = "cadunet" THEN New("CAMDUNet", 3, 1, FALSE, "build_model")
    ELSE IF name = "camdunet" THEN New("CAMDUNet", 3, 1, FALSE, "build_model")
    ELSE New("UNet", 3, 1, FALSE, "build_model")

----------------------------------------------------------------------------
\* The state machine: a script that builds a model (by name or by calling a
\* class), then either runs it on an input or counts its parameters, and
\* deletes it; or that calls one of the shared blocks on its own.

\* The names the script passes to build_model: the seven it tests for, the
\* default, and others.
Names ==
    {"unet_vgg16", "dcan", "caunet", "camunet", "dunet", "cadunet", "camdunet",
     "unet", "unknown_name", "", "UNet", "CADUNet", "dcan ", "vgg16"}

NoName == "<no call>"

NoResult == [ok |-> FALSE, outs |-> <<>>, err |-> "not called", ups |-> <<>>]

NoCount == <<>>

NoBlk ==
    [op |-> "none", in_size |-> 0, out_size |-> 0, kernel_size |-> 0, dropout_rate |-> 0,
     dilation |-> 0, up_in |-> 0, tunnel |-> "none", t |-> NoTensor, bridge |-> NoTensor,
     up |-> NoTensor, mid |-> NoTensor, out |-> NoTensor]

\* torch.randn(n, c, h, w)
Input(n, c, h, w) == T(n, c, h, w, "real", "input")

Init ==
    /\ model_name = NoName
    /\ model = NoModel
    /\ x = NoTensor
    /\ y = NoResult
    /\ count = NoCount
    /\ blk = NoBlk

\* model = build_model(name)
BuildModel ==
    /\ model = NoModel
    /\ blk = NoBlk
    /\ \E name \in Names :
          /\ model_name' = name
          /\ model' = build_model(name)
    /\ UNCHANGED <<x, y, count, blk>>

\* net = UNet(), net = CAUNet(), ..., net = UNetVgg16(3, 1), net = DCAN(3, 1)
Construct ==
    /\ model = NoModel
    /\ blk = NoBlk
    /\ \E cls \in Classes, fixed_vgg \in BOOLEAN :
          model' = New(cls, 3, 1, fixed_vgg, "__main__")
    /\ UNCHANGED <<model_name, x, y, count, blk>>

\* y = net(torch.randn(n, 3, h, w))
Forward ==
    /\ model # NoModel
    /\ y = NoResult
    /\ count = NoCount
    /\ \E n \in 1..MaxN, h \in 1..MaxDim, w \in 1..MaxDim :
          /\ x' = Input(n, 3, h, w)
          /\ y' = forward(model, Input(n, 3, h, w))
    /\ UNCHANGED <<model_name, model, count, blk>>

\* count_parameters(net)
CountParameters ==
    /\ model # NoModel
    /\ count = NoCount
    /\ y = NoResult
    /\ count' = <<count_parameters(model)>>
    /\ UNCHANGED <<model_name, model, x, y, blk>>

\* del net
Del ==
    /\ model # NoModel \/ blk # NoBlk
    /\ model_name' = NoName
    /\ model' = NoModel
    /\ x' = NoTensor
    /\ y' = NoResult
    /\ count' = NoCount
    /\ blk' = NoBlk

\* DilatedConvBlock(in_size, out_size, kernel_size, dropout_rate, dilation=dilation)(t)
CallDilatedConvBlock ==
    /\ model = NoModel
    /\ blk = NoBlk
    /\ \E in_size \in 1..MaxBlkCh, out_size \in 1..MaxBlkCh, kernel_size \in 1..MaxKernel,
          dropout_rate \in {0, 10}, dilation \in 1..MaxDilation,
          n \in 1..MaxN, h \in 1..MaxBlkDim, w \in 1..MaxBlkDim :
          blk' = [NoBlk EXCEPT
                    !.op = "DilatedConvBlock", !.in_size = in_size, !.out_size = out_size,
                    !.kernel_size = kernel_size, !.dropout_rate = dropout_rate,
                    !.dilation = dilation, !.t = Input(n, in_size, h, w),
                    !.out = DilatedConvBlock(Input(n, in_size, h, w), in_size, out_size,
                                             kernel_size, dropout_rate, dilation)]
    /\ UNCHANGED <<model_name, model, x, y, count>>

\* What lies between an encoder block and the decoder block of the same
\* depth, given the pooled tensor p of out_size channels: nothing, or a
\* bottom tunnel that doubles the channels, as DUNet's first bottleneck
\* layer does (a DilatedConvBlock) or as UNet's cu does (a ConvBlock whose
\* pre-pool output is kept).
Tunnel(kind, p, out_size) ==
    CASE kind = "none" -> p
      [] kind = "DilatedConvBlock" -> DilatedConvBlock(p, out_size, 2 * out_size, 3, 10, 1)
      [] kind = "ConvBlock" -> ConvBlock(p, out_size, 2 * out_size, 1)[2]

\* The record of p, c = ConvBlock(in_size, out_size)(t); z = tunnel(p);
\* ConvUpBlock(up_in, out_size)(z, c).
RoundTrip(in_size, out_size, up_in, dilation, kind, t, e, z) ==
    [NoBlk EXCEPT
        !.op = "ConvBlockThenUp", !.in_size = in_size, !.out_size = out_size,
        !.kernel_size = 3, !.dropout_rate = 20, !.dilation = dilation, !.up_in = up_in,
        !.tunnel = kind, !.t = t, !.bridge = e[2], !.mid = z,
        !.up = ConvUp(z, up_in, out_size),
        !.out = ConvUpBlock(z, e[2], up_in, out_size, 1)]

\* p, c = ConvBlock(in_size, out_size, dilation=dilation)(t), then
\* ConvUpBlock(up_in, out_size)(tunnel(p), c).
CallConvBlockThenUp ==
    /\ model = NoModel
    /\ blk = NoBlk
    /\ \E in_size \in 1..MaxBlkCh, out_size \in 1..MaxBlkCh, wide \in BOOLEAN,
          kind \in {"none", "DilatedConvBlock", "ConvBlock"}, dilation \in 1..2,
          n \in 1..MaxN, h \in 1..MaxBlkDim, w \in 1..MaxBlkDim :
          blk' = RoundTrip(in_size, out_size, IF wide THEN 2 * out_size ELSE out_size,
                           dilation, kind, Input(n, in_size, h, w),
                           ConvBlock(Input(n, in_size, h, w), in_size, out_size, dilation),
                           Tunnel(kind,
                                  ConvBlock(Input(n, in_size, h, w), in_size, out_size,
                                            dilation)[1],
                                  out_size))
    /\ UNCHANGED <<model_name, model, x, y, count>>

\* The record of DeConvBlk(in_ch, out_ch)(x1, x2).
Decoded(in_ch, out_ch, x1, x2) ==
    [NoBlk EXCEPT
        !.op = "DeConvBlk", !.in_size = in_ch, !.out_size = out_ch, !.kernel_size = 3,
        !.dropout_rate = 20, !.dilation = 1, !.up_in = in_ch, !.t = x1, !.bridge = x2,
        !.up = DeConvUp(x1, in_ch),
        !.mid = DeConvPad(DeConvUp(x1, in_ch), x2),
        !.out = DeConvBlk(x1, x2, in_ch, out_ch)]

\* DeConvBlk(in_ch, out_ch)(x1, x2), with x1 of in_ch channels and the skip
\* tensor x2 of out_ch channels.
CallDeConvBlk ==
    /\ model = NoModel
    /\ blk = NoBlk
    /\ \E half \in 1..MaxBlkCh, out_ch \in 1..MaxBlkCh, n \in 1..MaxN,
          h1 \in 1..MaxUpDim, w1 \in 1..MaxUpDim, h2 \in 1..MaxBlkDim, w2 \in 1..MaxBlkDim :
          blk' = Decoded(2 * half, out_ch, T(n, 2 * half, h1, w1, "nonneg", "relu"),
                         T(n, out_ch, h2, w2, "nonneg", "relu"))
    /\ UNCHANGED <<model_name, model, x, y, count>>

Next ==
    \/ BuildModel
    \/ Construct
    \/ Forward
    \/ CountParameters
    \/ Del
    \/ CallDilatedConvBlock
    \/ CallConvBlockThenUp
    \/ CallDeConvBlk

Spec == Init /\ [][Next]_vars

----------------------------------------------------------------------------
\* Properties.

\* A forward has been run on x, with result y.
Ran == model # NoModel /\ y # NoResult

\* The downsampling factor and the number of outputs the documentation
\* gives for each class.
Factor(cls) == IF cls \in Family THEN 16 ELSE 32

Branches(cls) ==
    IF cls \in {"UNet", "DUNet", "UNetVgg16"} THEN 1
    ELSE IF cls \in {"CAUNet", "CADUNet", "DCAN"} THEN 2
    ELSE 3

Divides(d, t) == t.h % d = 0 /\ t.w % d = 0

SameShape(t, n, c, h, w) == t.ok /\ t.n = n /\ t.c = c /\ t.h = h /\ t.w = w

\* C1 (as stated): for every variant and every input (N, 3, H, W) with H and
\* W divisible by the variant's downsampling factor (16 for the six U-Net
\* classes, 32 for DCAN and UNetVgg16), forward completes and returns
\* exactly k tensors of shape (N, 1, H, W), k being 1, 2 or 3 by class.
C1_AsStated ==
    (Ran /\ Divides(Factor(model.cls), x))
        => /\ y.ok
           /\ Len(y.outs) = Branches(model.cls)
           /\ \A i \in DOMAIN y.outs : SameShape(y.outs[i], x.n, 1, x.h, x.w)

\* C1: UNet on a (2, 3, 16, 16) input: 16 divides both sizes, and forward
\* raises in the pool of the bottom block cu before any decoder stage.
C1_Failing ==
    /\ model.cls = "UNet"
    /\ x = Input(2, 3, 16, 16)
    /\ ~y.ok
    /\ y.err = "maxpool2d: output size is too small"
    /\ y.ups = <<>>

\* The names build_model compares model_name with.
Recognized == {"unet_vgg16", "dcan", "caunet", "camunet", "dunet", "cadunet", "camdunet"}

\* C2: build_model returns a model for every name, and for every name that
\* is none of the seven recognized ones the model is a plain UNet, the same
\* as build_model('unet') returns.
C2_UnknownNameIsUNet ==
    model_name # NoName
        => /\ model.cls \in Classes
           /\ model_name \notin Recognized
                 => model.cls = "UNet" /\ model = build_model("unet")

\* C2: build_model('unknown_name') has returned, and returned a UNet.
C2_Witness == model_name = "unknown_name" /\ model.cls = "UNet" /\ model.by = "build_model"

\* The class that bears a recognized name.
Bearing(name) ==
    CASE name = "unet_vgg16" -> "UNetVgg16"
      [] name = "dcan" -> "DCAN"
      [] name = "caunet" -> "CAUNet"
      [] name = "camunet" -> "CAMUNet"
      [] name = "dunet" -> "DUNet"
      [] name = "cadunet" -> "CADUNet"
      [] name = "camdunet" -> "CAMDUNet"

\* C3 (as stated): each of the eight classes is returned by build_model for
\* some name, and each recognized name returns the class bearing that name.
C3_AsStated ==
    model_name # NoName
        => /\ \A cls \in Classes : \E name \in Names : build_model(name).cls = cls
           /\ model_name \in Recognized => model.cls = Bearing(model_name)

\* C3: build_model('cadunet') has returned the three-output CAMDUNet.
C3_Failing == model_name = "cadunet" /\ model.cls = "CAMDUNet" /\ Branches(model.cls) = 3

\* C4 (as stated): DilatedConvBlock maps an input (N, in_size, H, W) to an
\* output (N, out_size, H, W), for every kernel_size and every dilation >= 1.
C4_AsStated ==
    blk.op = "DilatedConvBlock"
        => SameShape(blk.out, blk.t.n, blk.out_size, blk.t.h, blk.t.w)

\* C4: a DilatedConvBlock with kernel_size 5 and dilation 1 on a 7 x 7 input
\* returns a 5 x 5 output.
C4_Failing ==
    /\ blk.op = "DilatedConvBlock"
    /\ blk.kernel_size = 5 /\ blk.dilation = 1
    /\ blk.t.h = 7 /\ blk.t.w = 7
    /\ blk.out.ok /\ blk.out.h = 5 /\ blk.out.w = 5

\* A ConvBlock(in, out) followed by ConvUpBlock(2*out, out) on the skip
\* tensor the ConvBlock produced.
RoundTripCase == blk.op = "ConvBlockThenUp" /\ blk.up_in = 2 * blk.out_size

Even(n) == n % 2 = 0

C6_AsStated ==
    blk.op = "DeConvBlk"
        => /\ blk.mid.ok /\ blk.mid.h = blk.up.h /\ blk.mid.w = blk.up.w
           /\ blk.out.ok /\ blk.out.h = blk.up.h /\ blk.out.w = blk.up.w

\* C6: x1 upsampled to 4 x 4 and a 3 x 3 skip tensor: the padding adds
\* nothing, and the concatenation raises.
C6_Failing ==
    /\ blk.op = "DeConvBlk"
    /\ blk.up.ok /\ blk.up.h = 4 /\ blk.up.w = 4
    /\ blk.bridge.h = 3 /\ blk.bridge.w = 3
    /\ blk.mid.ok /\ blk.mid.h = 3 /\ blk.mid.w = 3
    /\ ~blk.out.ok /\ blk.out.err = "cat: sizes of tensors must match"

\* Number of scalar parameters of the four DeConvBlk decoder blocks and the
\* output head of UNetVgg16(3, 1).
DecoderAndHead ==
    DeConvBlkNumel(512, 512) + DeConvBlkNumel(512, 256) + DeConvBlkNumel(256, 128)
    + DeConvBlkNumel(128, 64) + Conv2dNumel(64, 1, 1)

\* The attributes UNetVgg16.forward calls.
CalledBy(fwd) == {fwd.body[k].call : k \in DOMAIN fwd.body}

\* Every convolution and batch norm among the modules r that is called
\* under one of the attributes `called` has its parameters in `frozen`.
CalledAreFrozen(r, called, frozen) ==
    \A k \in DOMAIN r :
        (r[k].attr \in called /\ r[k].kind \in {"Conv2d", "BatchNorm2d"})
            => r[k].id \in frozen

\* C7: in a UNetVgg16 constructed with fixed_vgg=True, as build_model does,
\* every parameter of the backbone has requires_grad False, those of every
\* convolution and batch norm forward calls among them, and
\* count_parameters returns the number of parameters of the four decoder
\* blocks and the output head, each counted once.
C7_FrozenBackbone ==
    /\ model_name = "unet_vgg16" => model.cls = "UNetVgg16" /\ model.fixed_vgg
    /\ (model.cls = "UNetVgg16" /\ model.fixed_vgg)
          => /\ \A k \in DOMAIN vgg16 : vgg16[k].id \in model.frozen
             /\ CalledAreFrozen(Registered(model), CalledBy(UNetVgg16_forward), model.frozen)
             /\ count # NoCount => count[1] = DecoderAndHead

\* C7: build_model('unet_vgg16') has returned and count_parameters has
\* counted 9,439,617 parameters in it.
C7_Witness ==
    /\ model_name = "unet_vgg16"
    /\ model.cls = "UNetVgg16" /\ model.fixed_vgg
    /\ count = <<9439617>>

\* The statement of a forward that last assigns the name v.
Assigns(stmt, v) == \E i \in DOMAIN stmt.dst : stmt.dst[i] = v

LastAssign(body, v) ==
    CHOOSE k \in DOMAIN body :
        Assigns(body[k], v) /\ \A j \in (k + 1)..Len(body) : ~Assigns(body[j], v)

\* C8: every returned tensor has all its elements in [0, 1] and is the
\* direct result of a sigmoid: the statement that last assigns a returned
\* name is a call of F.sigmoid, and in DCAN its argument is the sum built by
\* the two additions before it.
C8_SigmoidRange ==
    (Ran /\ y.ok)
        => /\ \A i \in DOMAIN y.outs : y.outs[i].rng = "unit" /\ y.outs[i].op = "sigmoid"
           /\ \A i \in DOMAIN Forwards(model.cls).ret :
                 Forwards(model.cls).body[
                     LastAssign(Forwards(model.cls).body, Forwards(model.cls).ret[i])].call
                 = "F.sigmoid"
           /\ model.cls = "DCAN"
                 => \A i \in DOMAIN DCAN_forward.ret :
                       /\ DCAN_forward.body[
                              LastAssign(DCAN_forward.body, DCAN_forward.ret[i]) - 1].call = "+"
                       /\ DCAN_forward.body[
                              LastAssign(DCAN_forward.body, DCAN_forward.ret[i]) - 2].call = "+"

\* C8: DCAN has returned its two tensors, both results of a sigmoid.
C8_Witness ==
    /\ model.cls = "DCAN"
    /\ y.ok /\ Len(y.outs) = 2
    /\ y.outs[1].op = "sigmoid" /\ y.outs[2].op = "sigmoid"
    /\ y.outs[1].rng = "unit" /\ y.outs[2].rng = "unit"

\* The encoder skip tensor a decoder stage is documented to consume.
SkipOf(stage) ==
    CASE stage \in {"u5", "u5s", "u5c", "u5m"} -> "c4"
      [] stage \in {"u6", "u6s", "u6c", "u6m"} -> "c3"
      [] stage \in {"u7", "u7s", "u7c", "u7m"} -> "c2"
      [] stage \in {"u8", "u8s", "u8c", "u8m"} -> "c1"
      [] OTHER -> "none"

SameSpatial(a, b) == a.ok /\ b.ok /\ a.n = b.n /\ a.h = b.h /\ a.w = b.w

\* C9 (as stated): in the six U-Net classes every decoder stage consumes
\* the skip tensors in reverse order, and at every ConvUpBlock the channels
\* of the upsampled tensor and of the skip tensor sum to in_size and the
\* two tensors have the same spatial size.
C9_AsStated ==
    (Ran /\ model.cls \in Family)
        => \A k \in DOMAIN y.ups :
              /\ SkipOf(y.ups[k].stage) = y.ups[k].bridge
              /\ y.ups[k].up.c + y.ups[k].skip.c = y.ups[k].in_size
              /\ SameSpatial(y.ups[k].up, y.ups[k].skip)

\* C9 (amended): at every ConvUpBlock reached, the stage is given the skip
\* tensor of its depth (u5 c4, u6 c3, u7 c2, u8 c1) and the channels of the
\* upsampled tensor and of the skip tensor sum to in_size; the two tensors
\* have the same spatial size when H and W are divisible by 16, and a
\* forward that returns has run four stages per branch.  When H or W is not
\* divisible by 16 and a stage is reached, the last stage reached has
\* tensors of different spatial sizes and its concatenation raises.
C9_Wiring ==
    (Ran /\ model.cls \in Family)
        => /\ \A k \in DOMAIN y.ups :
                 /\ SkipOf(y.ups[k].stage) = y.ups[k].bridge
                 /\ y.ups[k].up.ok /\ y.ups[k].skip.ok
                 /\ y.ups[k].up.c + y.ups[k].skip.c = y.ups[k].in_size
                 /\ Divides(16, x) => SameSpatial(y.ups[k].up, y.ups[k].skip)
           /\ y.ok => Len(y.ups) = 4 * Branches(model.cls)
           /\ (~Divides(16, x) /\ y.ups # <<>>)
                 => /\ ~SameSpatial(y.ups[Len(y.ups)].up, y.ups[Len(y.ups)].skip)
                    /\ ~y.ok /\ y.err = "cat: sizes of tensors must match"

\* C9: CAMDUNet has returned after its twelve decoder stages, the last of
\* them u8m on c1.
C9_Witness ==
    /\ model.cls = "CAMDUNet"
    /\ y.ok /\ Len(y.ups) = 12
    /\ y.ups[12].stage = "u8m" /\ y.ups[12].bridge = "c1"
    /\ SameSpatial(y.ups[12].up, y.ups[12].skip)

\* C10 (as stated): for the six U-Net classes and every input (N, 3, H, W),
\* forward succeeds if and only if 16 divides H and W; otherwise it ends in
\* a shape error, at a concatenation or an empty pooled tensor, and returns
\* nothing.
C10_AsStated ==
    (Ran /\ model.cls \in Family)
        => /\ y.ok <=> Divides(16, x)
           /\ ~y.ok => /\ y.outs = <<>>
                       /\ y.err \in {"cat: sizes of tensors must match",
                                     "maxpool2d: output size is too small"}

\* C10: CAUNet on a (2, 3, 32, 16) input: 16 divides both sizes, and
\* forward raises in the pool of the bottom block.
C10_Failing ==
    /\ model.cls = "CAUNet"
    /\ Divides(16, x)
    /\ x = Input(2, 3, 32, 16)
    /\ ~y.ok
    /\ y.err = "maxpool2d: output size is too small"

\* C11 (as stated): for every variant and every input spatial size (H, W),
\* divisible by the downsampling factor or not, a forward that returns
\* without an error returns tensors of spatial size exactly (H, W).
C11_AsStated ==
    (Ran /\ y.ok)
        => \A i \in DOMAIN y.outs : y.outs[i].h = x.h /\ y.outs[i].w = x.w

\* C11: DCAN on a (2, 3, 33, 33) input has returned its two tensors, both
\* 32 x 32.
C11_Failing ==
    /\ model.cls = "DCAN"
    /\ x = Input(2, 3, 33, 33)
    /\ y.ok /\ Len(y.outs) = 2
    /\ \A i \in DOMAIN y.outs : SameShape(y.outs[i], 2, 1, 32, 32)
====
